---- MODULE Spec2Model ----
(***************************************************************************)
(* A model of generate_cone.py: platform detection by flood fill over a   *)
(* sparse block grid, generation of a hanging cone under each platform,   *)
(* and the insert-if-absent merge and save performed by main().           *)
(***************************************************************************)
EXTENDS Integers, Sequences, FiniteSets, TLC

VARIABLES
    file,            \* map.json on disk
    pc,              \* position of main()
    log,             \* messages printed so far
    map_data,        \* the structure json.load returned
    idx,             \* position of "for coord in blocks" (1-based)
    visited,         \* find_platforms: visited
    platforms,       \* find_platforms: platforms
    platform,        \* flood_fill: platform
    queue,           \* flood_fill: queue
    added,           \* history of the executions of visited.add / platform.add
    rnd,             \* the state of the random module
    pidx,            \* position of "for platform in platforms" (1-based)
    center,          \* (center_x, center_z) of the cone being generated
    depth,           \* generate_hanging_cone: depth
    layer,           \* generate_hanging_cone: y of the next hanging layer
    cone_blocks,     \* generate_hanging_cone: cone_blocks
    all_cone_blocks  \* main: all_cone_blocks

detect_vars == <<idx, visited, platforms, platform, queue, added>>
cone_vars == <<rnd, pidx, center, depth, layer, cone_blocks, all_cone_blocks>>
vars == <<file, pc, log, map_data, detect_vars, cone_vars>>

(***************************************************************************)
(* Bounds of the model.                                                    *)
(***************************************************************************)
Side == 8            \* side of the square platform of the scenario grids
MaxShift == 1        \* file orders: rotations by 0..MaxShift parts of the list
NumSources == 2      \* random sources tried
MaxCenter == 1       \* cone centres tried alone: -MaxCenter..MaxCenter

(***************************************************************************)
(* Program constants.                                                      *)
(***************************************************************************)
Target == 24         \* mossy cobblestone
MinSize == 50        \* a platform is kept when larger than this
MaxRadius == 15      \* generate_hanging_cone: max_radius
Depth == 30          \* the depth main() asks for
NumAnchors == 8      \* noise points of the cap layer
Stone == 37
Cobble == 4

(***************************************************************************)
(* A dictionary is the set of its items, the (key, value) pairs; no two    *)
(* items share a key.                                                      *)
(***************************************************************************)
Empty == {}

\* the keys of a dictionary (the comparison has TLC sort the set once, so
\* that testing membership in it is a binary search)
Keys(d) ==
    LET ks == {item[1] : item \in d}
    IN  IF ks = {} THEN {} ELSE ks

\* d.update(new): the new items win
Update(d, new) ==
    LET n == new
        ks == Keys(n)
    IN  IF n = {} THEN d ELSE n \cup {item \in d : item[1] \notin ks}

(***************************************************************************)
(* Grid addressing.  A key is the list of the comma-separated fields of    *)
(* the string.  A field is "dec" (the decimal form str() prints), "alt"    *)
(* (another spelling int() accepts, such as "+3" or "03") or "bad" (text   *)
(* int() rejects).                                                         *)
(***************************************************************************)
Fld(n) == [f |-> "dec", v |-> n]
AltFld(n) == [f |-> "alt", v |-> n]
BadFld == [f |-> "bad", v |-> 0]

\* f"{x},{y},{z}"
Encode(x, y, z) == <<Fld(x), Fld(y), Fld(z)>>

\* x, _, z = map(int, coord.split(',')) succeeds
Parsable(key) == Len(key) = 3 /\ \A i \in 1..3 : key[i].f # "bad"

\* the (x, z) of a key that parses; the middle field is dropped
DecodeXZ(key) == <<key[1].v, key[3].v>>

(***************************************************************************)
(* Variants of the program's operations that differ from the code in one   *)
(* respect each.  The properties below are expected to tell them apart     *)
(* from the code.                                                          *)
(***************************************************************************)
\* the merge lets a generated block replace an original one
MergeOverwrites(blocks, cone) == Update(blocks, cone)

\* each flood fill consults only the coordinates it has collected itself
SeenLocal(vis, plat) == plat

\* a popped coordinate is never skipped
PopNeverSkips(c, vis, plat) == FALSE

\* the neighbour at z - 1 is left out
ThreeNeighbors(x, z) == << <<x + 1, z>>, <<x - 1, z>>, <<x, z + 1>> >>

\* a set of exactly min_size members is kept
KeepAtLeast(p) == Cardinality(p) >= MinSize

\* a / b rounded toward zero
TruncDiv(a, b) == IF a >= 0 THEN a \div b ELSE -((-a) \div b)

\* the except clause lets the run continue with the save
ErrorFallsThrough == "save"

\* hanging layers are written above the cap
HangKeyUp(center_x, center_z, x, y, z) == Encode(x + center_x, y, z + center_z)

(***************************************************************************)
(* find_platforms: the pure parts.                                         *)
(***************************************************************************)
GetNeighbors(x, z) == << <<x + 1, z>>, <<x - 1, z>>, <<x, z + 1>>, <<x, z - 1>> >>

\* the set flood_fill consults: find_platforms' visited, shared by all fills
Seen(vis, plat) == vis

\* line 20: a popped coordinate that is already visited is skipped
PopSkips(c, vis, plat) == c \in Seen(vis, plat)

\* line 28: a neighbour is queued when its y=0 key holds the target block
NeighborOk(blocks, vis, plat, n) ==
    <<Encode(n[1], 0, n[2]), Target>> \in blocks /\ n \notin Seen(vis, plat)

\* line 40
KeepPlatform(p) == Cardinality(p) > MinSize

(***************************************************************************)
(* main: centroid and merge.                                               *)
(***************************************************************************)
RECURSIVE SumOf(_, _)
SumOf(S, i) ==
    IF S = {} THEN 0
    ELSE LET c == CHOOSE c \in S : TRUE IN c[i] + SumOf(S \ {c}, i)

\* sum(xs) // len(xs): Python's // rounds toward minus infinity, as \div does
FloorDiv(a, b) == a \div b

\* lines 148-151
Centroid(p) == <<FloorDiv(SumOf(p, 1), Cardinality(p)), FloorDiv(SumOf(p, 2), Cardinality(p))>>

\* lines 159-162: a generated block is inserted only where the grid has none
MergeBlocks(blocks, cone) ==
    LET b == blocks
        ks == Keys(b)
    IN  IF b = {} THEN cone ELSE b \cup {item \in cone : item[1] \notin ks}

(***************************************************************************)
(* The random module.  Every draw may return any value, so a run is fixed  *)
(* by the value each draw returns: draw number k of a source returns       *)
(* (lo + k * step) / 1000.  A cone's draws are numbered by their place in  *)
(* the code (anchor, cell, draw of the cell) from the source's base.       *)
(***************************************************************************)
RandomSources ==
    << [lo |-> 999, step |-> 0,   base |-> 0],
       [lo |-> 123, step |-> 377, base |-> 0],
       [lo |-> 500, step |-> 0,   base |-> 0],
       [lo |-> 250, step |-> 731, base |-> 0],
       [lo |-> 17,  step |-> 93,  base |-> 0],
       [lo |-> 640, step |-> 211, base |-> 0] >>

\* random.random(), in thousandths
U(r, k) == (r.lo + (r.base + k) * r.step) % 1000

\* the source after one call of generate_hanging_cone
ConeDraws == 100 * 1000
Advance(r) == [r EXCEPT !.base = (@ + ConeDraws) % (10 * ConeDraws)]

(***************************************************************************)
(* Real arithmetic is fixed point: distances in thousandths, sines,        *)
(* weights and scale factors in ten-thousandths.  Anchor angles are the    *)
(* multiples of 18 degrees.                                                *)
(***************************************************************************)
Unit == 10000
Abs(n) == IF n < 0 THEN -n ELSE n

RECURSIVE SqrtBetween(_, _, _)
SqrtBetween(v, lo, hi) ==
    IF lo = hi THEN lo
    ELSE LET mid == (lo + hi + 1) \div 2
         IN  IF mid * mid <= v THEN SqrtBetween(v, mid, hi)
             ELSE SqrtBetween(v, lo, mid - 1)

\* math.sqrt(n) in thousandths, for n = x*x + z*z inside the bounding squares
DistMilli ==
    [n \in 0..(2 * (MaxRadius + 2) * (MaxRadius + 2)) |->
        SqrtBetween(n * 1000000, 0, 1000 * 2 * (MaxRadius + 2))]

\* math.sin of the multiples of 18 degrees
SinTable ==
    << 0, 3090, 5878, 8090, 9511, 10000, 9511, 8090, 5878, 3090, 0,
       -3090, -5878, -8090, -9511, -10000, -9511, -8090, -5878, -3090 >>
SinOf(a) == SinTable[(a % 20) + 1]
CosOf(a) == SinTable[((a + 5) % 20) + 1]

\* math.cos(distance * 0.8) for distance = sqrt(n), n = 169 .. 324
Cos08Table ==
    << -5610, -5353, -5092, -4826, -4558, -4285, -4010, -3731, -3450,
       -3167, -2882, -2594, -2306, -2016, -1725, -1434, -1141, -849,
       -557, -265, 26, 317, 606, 894, 1181, 1466, 1749, 2030, 2309,
       2585, 2858, 3128, 3395, 3659, 3919, 4175, 4428, 4676, 4920, 5160,
       5395, 5626, 5852, 6073, 6288, 6499, 6704, 6904, 7098, 7286, 7469,
       7646, 7816, 7981, 8140, 8292, 8439, 8578, 8712, 8839, 8960, 9074,
       9181, 9282, 9377, 9465, 9546, 9620, 9688, 9749, 9803, 9851, 9892,
       9927, 9954, 9976, 9990, 9998, 10000, 9995, 9984, 9966, 9942,
       9911, 9875, 9832, 9783, 9728, 9667, 9601, 9528, 9450, 9366, 9276,
       9181, 9081, 8975, 8864, 8748, 8627, 8501, 8370, 8235, 8095, 7950,
       7801, 7648, 7490, 7329, 7163, 6994, 6821, 6644, 6464, 6281, 6094,
       5904, 5712, 5516, 5318, 5117, 4914, 4708, 4500, 4290, 4078, 3864,
       3648, 3431, 3212, 2992, 2771, 2548, 2325, 2101, 1876, 1650, 1424,
       1197, 971, 744, 517, 290, 63, -163, -389, -614, -838, -1062,
       -1285, -1507, -1728, -1948, -2166, -2383, -2598 >>
Cos08(n) == Cos08Table[n - 168]

\* max_radius * (1 - (y / depth) ** 0.7) in thousandths, by depth and y
RadiusMilli ==
    (2 :> << 5766 >>) @@ (3 :> << 8048, 3706 >>) @@ (4 :> << 9316, 5766, 2735 >>)
    @@ (30 :> << 13612, 12746, 12007, 11339, 10720, 10138, 9584, 9053, 8542,
                 8048, 7568, 7101, 6646, 6201, 5766, 5339, 4920, 4509, 4104,
                 3706, 3314, 2927, 2545, 2169, 1797, 1429, 1066, 707, 351 >>)
CurrentRadius(y, d) == RadiusMilli[d][y]
Depths == {1} \cup DOMAIN RadiusMilli

(***************************************************************************)
(* create_organic_platform_layer.                                          *)
(***************************************************************************)
\* lines 51-52: the eight noise angles (in steps of 18 degrees) and offsets
Anchors(r) ==
    [i \in 1..NumAnchors |->
        [angle  |-> U(r, i - 1) \div 50,
         offset |-> 8000 + 4 * U(r, NumAnchors + i - 1)]]

\* abs(math.sin(angle - noise_angle)) for angle = math.atan2(z, x)
AbsSin(x, z, a) ==
    IF x = 0 /\ z = 0 THEN Abs(SinOf(a))
    ELSE (Abs(z * CosOf(a) - x * SinOf(a)) * 1000) \div DistMilli[x * x + z * z]

\* line 59
Weight(x, z, a) == (Unit * Unit) \div (Unit + AbsSin(x, z, a))

RECURSIVE SumTo(_, _)
SumTo(f, n) == IF n = 0 THEN 0 ELSE f[n] + SumTo(f, n - 1)

\* lines 54-62
GetRadiusOffset(x, z, anchors) ==
    LET w == [i \in 1..NumAnchors |-> Weight(x, z, anchors[i].angle)]
        total == SumTo([i \in 1..NumAnchors |-> anchors[i].offset * w[i]], NumAnchors)
        weights == SumTo(w, NumAnchors)
    IN  IF weights > 0 THEN total \div weights ELSE Unit

\* line 70: distance <= radius * radius_offset
CapIncluded(x, z, radius, anchors) ==
    DistMilli[x * x + z * z] * 10 <= radius * GetRadiusOffset(x, z, anchors)

\* the number of draw j of cell (x, z) of the cap layer
CapDraw(x, z, radius, j) ==
    2 * NumAnchors + ((x + radius + 2) * (2 * radius + 5) + (z + radius + 2)) * 2 + j

\* line 74: math.sin(angle * 4) + math.cos(distance * 0.8), the sign of noise
Noise(x, z) ==
    LET n == x * x + z * z
    IN  (4 * Unit * x * z * (x * x - z * z)) \div (n * n) + Cos08(n)

\* lines 72-84
CapBlockId(x, z, radius, r) ==
    IF (radius - 2) * 1000 <= DistMilli[x * x + z * z]
    THEN IF Noise(x, z) > 0
         THEN (IF U(r, CapDraw(x, z, radius, 1)) < 700 THEN Stone ELSE Cobble)
         ELSE Target
    ELSE IF U(r, CapDraw(x, z, radius, 1)) < 900 THEN Target
         ELSE (IF U(r, CapDraw(x, z, radius, 2)) < 700 THEN Stone ELSE Cobble)

\* lines 64-65: the offsets looped over
CapRange(radius) == (-(radius + 2))..(radius + 2)

\* lines 45-89
CreateOrganicPlatformLayer(center_x, center_z, radius, r) ==
    LET anchors == Anchors(r)
        cells == {c \in CapRange(radius) \X CapRange(radius) :
                     CapIncluded(c[1], c[2], radius, anchors)}
    IN  {<<Encode(c[1] + center_x, 0, c[2] + center_z),
           CapBlockId(c[1], c[2], radius, r)>> : c \in cells}

(***************************************************************************)
(* generate_hanging_cone.                                                  *)
(***************************************************************************)
\* line 122
HangKey(center_x, center_z, x, y, z) == Encode(x + center_x, -y, z + center_z)

\* the number of draw j of cell (x, z) of hanging layer y
HangDraw(x, y, z, j) ==
    3000 + ((y * (2 * MaxRadius + 1) + x + MaxRadius) * (2 * MaxRadius + 1)
            + z + MaxRadius) * 3 + j

\* lines 111-113: the cell is inside the layer and not eroded away
HangIncluded(x, y, z, d, r) ==
    LET cur == CurrentRadius(y, d)
        n == x * x + z * z
    IN  /\ n * 1000000 <= cur * cur
        /\ ~ /\ (cur < 2000 \/ n * 1000000 > (cur - 2000) * (cur - 2000))
             /\ U(r, HangDraw(x, y, z, 1)) < 400

\* lines 115-120
HangBlockId(x, y, z, r) ==
    IF U(r, HangDraw(x, y, z, 2)) < 600 THEN Stone
    ELSE IF U(r, HangDraw(x, y, z, 3)) < 300 THEN Target
    ELSE Cobble

\* lines 108-113: the cells (x, y, z) of hanging layer y that get a block
HangingCells(y, d, r) ==
    LET ic == CurrentRadius(y, d) \div 1000
    IN  {<<c[1], y, c[2]>> :
            c \in {c \in (-ic..ic) \X (-ic..ic) : HangIncluded(c[1], y, c[2], d, r)}}

\* lines 115-123: the item written for cell c
HangBlock(center_x, center_z, c, r) ==
    <<HangKey(center_x, center_z, c[1], c[2], c[3]), HangBlockId(c[1], c[2], c[3], r)>>

\* lines 102-123: the items hanging layer y writes
HangingLayer(center_x, center_z, y, d, r) ==
    {HangBlock(center_x, center_z, c, r) : c \in HangingCells(y, d, r)}

\* line 101: range(1, depth)
LayerRange(d) == 1..(d - 1)

\* lines 91-125: the cap layer, updated with the items of every hanging layer
GenerateHangingCone(center_x, center_z, d, r) ==
    Update(CreateOrganicPlatformLayer(center_x, center_z, MaxRadius, r),
           {HangBlock(center_x, center_z, c, r) :
               c \in UNION {HangingCells(y, d, r) : y \in LayerRange(d)}})

(***************************************************************************)
(* The grids the model runs on: lists of (key, block id) in file order.    *)
(***************************************************************************)
\* a w-by-h rectangle of block id at y = 0 with corner (x0, z0), row by row
Rect(x0, z0, w, h, id) ==
    [i \in 1..(w * h) |->
        <<Encode(x0 + ((i - 1) % w), 0, z0 + ((i - 1) \div w)), id>>]

Grids ==
    [ square    |-> Rect(0, 0, Side, Side, Target),
      island    |-> Rect(0, 0, Side - 2, Side - 2, Target),
      fifty     |-> Rect(0, 0, 5, 10, Target),
      fiftyone  |-> Rect(0, 0, 5, 10, Target) \o << <<Encode(5, 0, 0), Target>> >>,
      negative  |-> Rect(-(Side + 1), -3, Side, Side, Target),
      bridged   |-> << <<Encode(Side, 1, 3), Target>> >>
                    \o Rect(0, 0, Side, Side - 1, Target)
                    \o Rect(Side + 1, 0, Side, Side - 1, Target),
      mixed     |-> << <<Encode(3, -1, 3), Cobble>>, <<Encode(Side, 0, 0), Stone>> >>
                    \o Rect(0, 0, Side, Side, Target)
                    \o << <<Encode(Side + 1, 0, 0), Target>>,
                          << <<AltFld(Side + 1), Fld(0), Fld(1)>>, Target>>,
                          <<Encode(0, 0, 0) \o <<Fld(0)>>, Cobble>>,
                          << <<Fld(1), BadFld, Fld(1)>>, Stone>> >>,
      badkey    |-> Rect(0, 0, Side, Side, Target)
                    \o << << <<Fld(1), Fld(0), BadFld>>, Target>> >>,
      empty     |-> << >> ]

\* file orders: the list rotated by k parts of MaxShift + 1, possibly reversed
Rotate(s, k) ==
    IF Len(s) = 0 THEN s
    ELSE LET by == k * (Len(s) \div (MaxShift + 1))
         IN  [i \in 1..Len(s) |-> s[((i - 1 + by) % Len(s)) + 1]]
Reverse(s) == [i \in 1..Len(s) |-> s[Len(s) + 1 - i]]

BlocksOf(entries) == {entries[i] : i \in 1..Len(entries)}
OrderOf(entries) == [i \in 1..Len(entries) |-> entries[i][1]]

\* map.json: missing, not JSON, JSON without "blocks", or a map
MissingFile ==
    [exists |-> FALSE, valid |-> FALSE, has_blocks |-> FALSE,
     blocks |-> Empty, order |-> <<>>]
GarbageFile == [MissingFile EXCEPT !.exists = TRUE]
NoBlocksFile == [GarbageFile EXCEPT !.valid = TRUE]
MapFile(entries) ==
    [exists |-> TRUE, valid |-> TRUE, has_blocks |-> TRUE,
     blocks |-> BlocksOf(entries), order |-> OrderOf(entries)]

Files ==
    {MissingFile, GarbageFile, NoBlocksFile}
    \cup {MapFile(Rotate(Grids[g], k)) : g \in DOMAIN Grids, k \in 0..MaxShift}
    \cup {MapFile(Reverse(Rotate(Grids[g], k))) : g \in DOMAIN Grids, k \in 0..MaxShift}

Sources == {RandomSources[i] : i \in 1..NumSources}

(***************************************************************************)
(* Initial state: main() has not started.                                  *)
(***************************************************************************)
Init ==
    /\ file \in Files
    /\ rnd \in Sources
    /\ pc = "start"
    /\ log = <<>>
    /\ map_data = MissingFile
    /\ idx = 1
    /\ visited = {}
    /\ platforms = <<>>
    /\ platform = {}
    /\ queue = <<>>
    /\ added = <<>>
    /\ pidx = 1
    /\ center = <<0, 0>>
    /\ depth = Depth
    /\ layer = 0
    /\ cone_blocks = Empty
    /\ all_cone_blocks = Empty

(***************************************************************************)
(* main(): existence check and load.                                       *)
(***************************************************************************)
\* where main() is after its except clause has run: it returns
AfterError == "failed"

\* an exception reaches the except clause of main()
Raise(printed) ==
    /\ pc' = AfterError
    /\ log' = Append(printed, "An error occurred")

\* lines 130-132
CheckExists ==
    /\ pc = "start"
    /\ IF file.exists
       THEN pc' = "load" /\ log' = log
       ELSE pc' = "failed" /\ log' = Append(log, "map.json not found")
    /\ UNCHANGED <<file, map_data, detect_vars, cone_vars>>

\* lines 134-140, up to the call of find_platforms
Load ==
    /\ pc = "load"
    /\ IF ~file.valid
       THEN Raise(Append(log, "Loading map.json")) /\ UNCHANGED map_data
       ELSE /\ map_data' = file
            /\ IF ~file.has_blocks
               THEN Raise(log \o <<"Loading map.json", "Detecting platforms">>)
               ELSE /\ pc' = "scan"
                    /\ log' = log \o <<"Loading map.json", "Detecting platforms">>
    /\ UNCHANGED <<file, detect_vars, cone_vars>>

(***************************************************************************)
(* find_platforms.                                                         *)
(***************************************************************************)
\* one iteration of "for coord in blocks" up to the call of flood_fill
Scan ==
    /\ pc = "scan"
    /\ idx <= Len(map_data.order)
    /\ LET coord == map_data.order[idx]
       IN  IF <<coord, Target>> \notin map_data.blocks
           THEN /\ idx' = idx + 1
                /\ UNCHANGED <<pc, log, queue, platform>>
           ELSE IF ~Parsable(coord)
           THEN /\ Raise(log)
                /\ UNCHANGED <<idx, queue, platform>>
           ELSE IF DecodeXZ(coord) \in visited
           THEN /\ idx' = idx + 1
                /\ UNCHANGED <<pc, log, queue, platform>>
           ELSE /\ pc' = "fill"
                /\ queue' = <<DecodeXZ(coord)>>
                /\ platform' = {}
                /\ UNCHANGED <<idx, log>>
    /\ UNCHANGED <<file, map_data, visited, platforms, added, cone_vars>>

\* one iteration of "while queue" in flood_fill
FloodPop ==
    /\ pc = "fill"
    /\ queue # <<>>
    /\ LET c == Head(queue)
       IN  IF PopSkips(c, visited, platform)
           THEN /\ queue' = Tail(queue)
                /\ UNCHANGED <<visited, platform, added>>
           ELSE /\ visited' = visited \cup {c}
                /\ platform' = platform \cup {c}
                /\ added' = Append(added, c)
                /\ queue' = Tail(queue) \o
                       SelectSeq(GetNeighbors(c[1], c[2]),
                                 LAMBDA n : NeighborOk(map_data.blocks, visited',
                                                       platform', n))
    /\ UNCHANGED <<file, pc, log, map_data, idx, platforms, cone_vars>>

\* flood_fill returns; the platform is kept when large enough
FloodReturn ==
    /\ pc = "fill"
    /\ queue = <<>>
    /\ platforms' = IF KeepPlatform(platform) THEN Append(platforms, platform)
                    ELSE platforms
    /\ idx' = idx + 1
    /\ pc' = "scan"
    /\ UNCHANGED <<file, log, map_data, visited, platform, queue, added, cone_vars>>

\* find_platforms returns
Found ==
    /\ pc = "scan"
    /\ idx > Len(map_data.order)
    /\ pc' = "generate"
    /\ log' = Append(log, "Found platforms")
    /\ UNCHANGED <<file, map_data, detect_vars, cone_vars>>

(***************************************************************************)
(* main(): a cone per platform, the merge and the save.                    *)
(***************************************************************************)
\* lines 146-155: one iteration of "for platform in platforms"
Generate ==
    /\ pc = "generate"
    /\ pidx <= Len(platforms)
    /\ center' = Centroid(platforms[pidx])
    /\ cone_blocks' = GenerateHangingCone(center'[1], center'[2], depth, rnd)
    /\ all_cone_blocks' = Update(all_cone_blocks, cone_blocks')
    /\ layer' = depth
    /\ rnd' = Advance(rnd)
    /\ pidx' = pidx + 1
    /\ log' = Append(log, "Platform center")
    /\ UNCHANGED <<file, pc, map_data, detect_vars, depth>>

\* lines 157-162
Merge ==
    /\ pc = "generate"
    /\ pidx > Len(platforms)
    /\ map_data' = [map_data EXCEPT !.blocks = MergeBlocks(@, all_cone_blocks)]
    /\ log' = Append(log, "Adding new blocks")
    /\ pc' = "save"
    /\ UNCHANGED <<file, detect_vars, cone_vars>>

\* lines 164-168
Save ==
    /\ pc = "save"
    /\ file' = map_data
    /\ log' = log \o <<"Saving updated map", "Done">>
    /\ pc' = "done"
    /\ UNCHANGED <<map_data, detect_vars, cone_vars>>

Next ==
    \/ CheckExists \/ Load
    \/ Scan \/ FloodPop \/ FloodReturn \/ Found
    \/ Generate \/ Merge \/ Save

Spec == Init /\ [][Next]_vars

(***************************************************************************)
(* find_platforms alone, called on the blocks of any of the maps.  The     *)
(* program is sequential: a step that can be taken is taken.               *)
(***************************************************************************)
InitDetect ==
    /\ file \in {f \in Files : f.valid /\ f.has_blocks}
    /\ map_data = file
    /\ rnd = RandomSources[1]
    /\ pc = "scan"
    /\ log = <<>>
    /\ idx = 1
    /\ visited = {}
    /\ platforms = <<>>
    /\ platform = {}
    /\ queue = <<>>
    /\ added = <<>>
    /\ pidx = 1
    /\ center = <<0, 0>>
    /\ depth = Depth
    /\ layer = 0
    /\ cone_blocks = Empty
    /\ all_cone_blocks = Empty

NextDetect == Scan \/ FloodPop \/ FloodReturn \/ Found

SpecDetect == InitDetect /\ [][NextDetect]_vars /\ WF_vars(NextDetect)

(***************************************************************************)
(* generate_hanging_cone alone, layer by layer, for the centres, depths    *)
(* and random sources of the bounds.                                       *)
(***************************************************************************)
Centers == {<<a, b>> : a \in (-MaxCenter)..MaxCenter, b \in {-MaxCenter, MaxCenter}}

InitCone ==
    /\ file = MissingFile
    /\ map_data = MissingFile
    /\ rnd \in Sources
    /\ pc = "cone_cap"
    /\ log = <<>>
    /\ idx = 1
    /\ visited = {}
    /\ platforms = <<>>
    /\ platform = {}
    /\ queue = <<>>
    /\ added = <<>>
    /\ pidx = 1
    /\ center \in Centers
    /\ depth \in Depths
    /\ layer = 0
    /\ cone_blocks = Empty
    /\ all_cone_blocks = Empty

\* lines 93-98
ConeCap ==
    /\ pc = "cone_cap"
    /\ cone_blocks' = Update(cone_blocks,
                          CreateOrganicPlatformLayer(center[1], center[2], MaxRadius, rnd))
    /\ layer' = 1
    /\ pc' = "cone_layers"
    /\ UNCHANGED <<file, log, map_data, detect_vars, rnd, pidx, center, depth,
                   all_cone_blocks>>

\* lines 101-123: one iteration of "for y in range(1, depth)"
ConeLayer ==
    /\ pc = "cone_layers"
    /\ layer \in LayerRange(depth)
    /\ cone_blocks' = Update(cone_blocks,
                          HangingLayer(center[1], center[2], layer, depth, rnd))
    /\ layer' = layer + 1
    /\ UNCHANGED <<file, pc, log, map_data, detect_vars, rnd, pidx, center, depth,
                   all_cone_blocks>>

\* line 125
ConeReturn ==
    /\ pc = "cone_layers"
    /\ layer \notin LayerRange(depth)
    /\ pc' = "cone_done"
    /\ UNCHANGED <<file, log, map_data, detect_vars, cone_vars>>

NextCone == ConeCap \/ ConeLayer \/ ConeReturn

SpecCone == InitCone /\ [][NextCone]_vars

(***************************************************************************)
(* Definitions used to state the properties.                               *)
(***************************************************************************)
Range(q) == {q[i] : i \in 1..Len(q)}

\* the key is the str() form of a coordinate at y = 0
IsCellKey(key) ==
    Len(key) = 3 /\ (\A i \in 1..3 : key[i].f = "dec") /\ key[2].v = 0

\* the (x, z) that hold the target block at y = 0
TargetCells(blocks) ==
    {DecodeXZ(item[1]) : item \in {i \in blocks : i[2] = Target /\ IsCellKey(i[1])}}

Adjacent(a, b) == Abs(a[1] - b[1]) + Abs(a[2] - b[2]) = 1

\* the cells of within that a path of 4-adjacent cells of within joins to seen
RECURSIVE Reach(_, _)
Reach(seen, within) ==
    LET more == {c \in within \ seen : \E s \in seen : Adjacent(s, c)}
    IN  IF more = {} THEN seen ELSE Reach(seen \cup more, within)

\* the maximal 4-connected regions of a set of cells
RECURSIVE Regions(_)
Regions(T) ==
    IF T = {} THEN {}
    ELSE LET c == CHOOSE c \in T : TRUE
             r == Reach({c}, T)
         IN  {r} \cup Regions(T \ r)

LargeRegions(blocks) == {r \in Regions(TargetCells(blocks)) : Cardinality(r) > MinSize}

\* every target block is a cell at y = 0 and the cells form one region
OneRegion(blocks) ==
    /\ TargetCells(blocks) # {}
    /\ \A item \in blocks : item[2] = Target => IsCellKey(item[1])
    /\ Regions(TargetCells(blocks)) = {TargetCells(blocks)}

\* find_platforms has returned its list (main has not merged yet)
Detected == pc = "generate"

\* the offsets of an item's key from the cone's centre
OffX(item) == item[1][1].v - center[1]
OffY(item) == item[1][2].v
OffZ(item) == item[1][3].v - center[2]

(***************************************************************************)
(* C1.  After the merge every item of the original blocks is still there   *)
(* with its value, the keys are the original keys and the generated keys,  *)
(* and no key has two values.                                              *)
(***************************************************************************)
MergeKeepsOriginal ==
    pc = "save" =>
        /\ file.blocks \subseteq map_data.blocks
        /\ Keys(map_data.blocks) = Keys(file.blocks) \cup Keys(all_cone_blocks)
        /\ Cardinality(map_data.blocks) = Cardinality(Keys(map_data.blocks))

\* the cap layer computed another block for "0,0,0", which the grid holds as 24
MergeCollision ==
    /\ pc = "save"
    /\ <<Encode(0, 0, 0), Target>> \in file.blocks
    /\ \E item \in all_cone_blocks : item[1] = Encode(0, 0, 0) /\ item[2] # Target

(***************************************************************************)
(* C2.  The platforms find_platforms returns are pairwise disjoint.        *)
(***************************************************************************)
PlatformsDisjoint ==
    \A i, j \in 1..Len(platforms) :
        i # j => platforms[i] \cap platforms[j] = {}

TwoPlatforms == Detected /\ Len(platforms) >= 2

(***************************************************************************)
(* C3.  Every member of a returned platform holds the target block at      *)
(* y = 0 and is joined to every other member by a path of such members.    *)
(***************************************************************************)
PlatformsConnected ==
    Detected =>
        \A i \in 1..Len(platforms) :
            LET p == platforms[i]
            IN  /\ p \subseteq TargetCells(map_data.blocks)
                /\ p = Reach({CHOOSE c \in p : TRUE}, p)

(***************************************************************************)
(* C4.  A flood-filled set is kept exactly when it has more than 50        *)
(* members; a grid whose target blocks form one region of N cells at y = 0 *)
(* yields that region as the only platform when N > 50, and none otherwise.*)
(***************************************************************************)
SizeThreshold ==
    /\ Detected => \A i \in 1..Len(platforms) : Cardinality(platforms[i]) > MinSize
    /\ (pc = "scan" /\ platform # {}) =>
           (Cardinality(platform) > MinSize
               <=> (platforms # <<>> /\ platforms[Len(platforms)] = platform))
    /\ (Detected /\ OneRegion(map_data.blocks)) =>
           platforms = IF Cardinality(TargetCells(map_data.blocks)) > MinSize
                       THEN <<TargetCells(map_data.blocks)>> ELSE <<>>

\* one region of exactly 50 cells has been scanned and no platform is returned
FiftyIsDropped ==
    /\ Detected
    /\ OneRegion(map_data.blocks)
    /\ Cardinality(TargetCells(map_data.blocks)) = MinSize
    /\ platforms = <<>>

(***************************************************************************)
(* C5.  The file is written only by the save step, which runs after the    *)
(* load, the detection, every cone and the merge; a run that fails has     *)
(* printed its error and has not started to save.                          *)
(***************************************************************************)
SaveComesLast ==
    /\ "Saving updated map" \in Range(log) =>
           /\ pc = "done"
           /\ idx > Len(map_data.order)
           /\ pidx > Len(platforms)
           /\ Keys(all_cone_blocks) \subseteq Keys(map_data.blocks)
           /\ file = map_data
           /\ log = <<"Loading map.json", "Detecting platforms", "Found platforms">>
                    \o [i \in 1..Len(platforms) |-> "Platform center"]
                    \o <<"Adding new blocks", "Saving updated map", "Done">>
    /\ pc = "failed" =>
           /\ "Saving updated map" \notin Range(log)
           /\ log[Len(log)] \in {"An error occurred", "map.json not found"}
    /\ pc \in {"done", "failed"} \/ "An error occurred" \notin Range(log)

FileWrittenBySave ==
    file' # file => (pc = "save" /\ pc' = "done" /\ file' = map_data)

NoSaveOnFailure == []SaveComesLast /\ [][FileWrittenBySave]_vars

\* a malformed key on a target block stopped the detection part-way
DetectionFailed ==
    /\ pc = "failed"
    /\ visited # {}
    /\ "Detecting platforms" \in Range(log)

(***************************************************************************)
(* C6.  The centre of a platform is the sum of its x (and of its z)        *)
(* divided by its size.  As claimed: rounded toward zero.  As the code     *)
(* does: rounded toward minus infinity.                                    *)
(***************************************************************************)
CentroidTruncates ==
    (Detected /\ pidx > 1) =>
        LET p == platforms[pidx - 1]
        IN  center = <<TruncDiv(SumOf(p, 1), Cardinality(p)),
                       TruncDiv(SumOf(p, 2), Cardinality(p))>>

CentroidFloors ==
    (Detected /\ pidx > 1) =>
        LET p == platforms[pidx - 1]
            n == Cardinality(p)
        IN  \A i \in 1..2 :
                n * center[i] <= SumOf(p, i) /\ SumOf(p, i) < n * center[i] + n

NegativeInexactSum ==
    /\ Detected
    /\ pidx > 1
    /\ SumOf(platforms[pidx - 1], 1) < 0
    /\ SumOf(platforms[pidx - 1], 1) % Cardinality(platforms[pidx - 1]) # 0

(***************************************************************************)
(* C7.  Every cell of the cap layer lies within distance R + 2 = 17 of     *)
(* the centre.                                                             *)
(***************************************************************************)
CapWithinRadiusPlusTwo ==
    (pc = "cone_layers" /\ layer = 1) =>
        \A item \in cone_blocks :
            OffX(item) * OffX(item) + OffZ(item) * OffZ(item)
                <= (MaxRadius + 2) * (MaxRadius + 2)

(***************************************************************************)
(* C8.  The blocks of a cone of depth d have y in -(d-1) .. 0: the cap     *)
(* layer writes at y = 0 only and hanging layer y at -y only.              *)
(***************************************************************************)
ConeYInRange ==
    pc \in {"cone_layers", "cone_done"} =>
        /\ layer <= IF depth > 1 THEN depth ELSE 1
        /\ \A item \in cone_blocks :
               /\ Parsable(item[1])
               /\ -layer < OffY(item) /\ OffY(item) <= 0
               /\ -depth < OffY(item)

LayerWritesItsOwnY ==
    (pc = "cone_layers" /\ pc' = "cone_layers") =>
        /\ 1 <= layer /\ layer <= depth - 1
        /\ \A item \in cone_blocks' \ cone_blocks : OffY(item) = -layer

ConeDepthBound == []ConeYInRange /\ [][LayerWritesItsOwnY]_vars

\* a cone of several layers has returned with a block in its last layer
DeepestLayerWritten ==
    /\ pc = "cone_done"
    /\ depth > 2
    /\ \E item \in cone_blocks : OffY(item) = -(depth - 1)

(***************************************************************************)
(* C9.  find_platforms terminates, and no coordinate is added to visited   *)
(* and to a platform twice, although a queue may hold it several times.    *)
(***************************************************************************)
AddedOnce == Cardinality(Range(added)) = Len(added)

FindPlatformsEnds == <>(pc \in {"generate", "failed"})

AddedOnceAndEnds == []AddedOnce /\ FindPlatformsEnds

\* the coordinate popped next was queued again before it was visited
QueuedTwice ==
    /\ pc = "fill"
    /\ queue # <<>>
    /\ Head(queue) \in visited

(***************************************************************************)
(* C10.  Every maximal region of more than 50 target cells at y = 0 lies   *)
(* whole in exactly one returned platform.                                 *)
(***************************************************************************)
LargeRegionsWhole ==
    Detected =>
        \A r \in LargeRegions(map_data.blocks) :
            Cardinality({i \in 1..Len(platforms) : r \subseteq platforms[i]}) = 1

\* two large regions were found from a start outside both, as one platform
TwoRegionsOnePlatform ==
    /\ Detected
    /\ Len(platforms) = 1
    /\ Cardinality(LargeRegions(map_data.blocks)) = 2

====
